---- MODULE Spec2Model ----
(***************************************************************************)
(* Model of the checkout-session create request of stripe-rs:              *)
(* src/resources/checkout_session_ext.rs.                                  *)
(*                                                                         *)
(* The caller builds a CreateCheckoutSession value out of public fields,   *)
(* CheckoutSession::create hands it to Client::post_form, which serialises *)
(* it (serde derive + query-string flattening) and returns the transport's *)
(* outcome.                                                                *)
(***************************************************************************)
EXTENDS Integers, Sequences, FiniteSets, TLC

\* Largest number of field assignments the caller makes while building one value.
MaxSteps == 3
\* Largest number of create calls made with equal parameter values.
MaxCreates == 2

VARIABLES
    pc,        \* "build": the caller is filling the struct; "done": create has returned
    params,    \* the CreateCheckoutSession value
    steps,     \* number of field assignments made so far
    reqPath,   \* path of the last request handed to the transport
    sent,      \* flat sequence of pairs of the last request handed to the transport
    prevSent,  \* the pairs of the request before the last one
    calls,     \* number of form submissions the transport has received
    creates,   \* number of create calls that have returned
    outcome,   \* what the transport produced for the last submission
    ret        \* what the last create call returned

vars == <<pc, params, steps, reqPath, sent, prevSent, calls, creates, outcome, ret>>

-----------------------------------------------------------------------------
(* Option<T>: None is the empty sequence, Some(v) the one-element sequence. *)

None == <<>>
Some(v) == <<v>>
IsNone(o) == o = None
IsSome(o) == o # None

-----------------------------------------------------------------------------
(* Values the caller draws its inputs from. *)

PaymentMethodTypeSet == {"card", "ideal"}
ClientReferenceIdSet == {"", "cart_7"}
CustomerIdSet == {"cus_1"}
EmailSet == {"a@example.com"}
BillingAddressCollectionSet == {"auto", "required", "always"}
AccountSet == {"acct_1"}
DescriptionSet == {"two widgets"}
ImageSet == {"https://img/1"}
MetadataKeySet == {"order", "sku"}
MetadataValueSet == {"42"}
AmountSet == {-1, 500}        \* i64
QuantitySet == {0, 2}         \* u64
FeeSet == {0, 100}            \* u64
StatementSet == {"SHOP"}
GroupSet == {"grp_1"}

CheckoutSessionLocale == {"Locale::Auto", "Locale::En"}
CheckoutSessionMode == {"Mode::Payment", "Mode::Setup", "Mode::Subscription"}
CheckoutSessionSubmitType ==
    {"SubmitType::Auto", "SubmitType::Book", "SubmitType::Donate", "SubmitType::Pay"}
Currency == {"Currency::USD", "Currency::EUR"}

LocaleToken(l) == IF l = "Locale::Auto" THEN "auto" ELSE "en"
ModeToken(m) ==
    CASE m = "Mode::Payment" -> "payment"
      [] m = "Mode::Setup" -> "setup"
      [] m = "Mode::Subscription" -> "subscription"
SubmitTypeToken(s) ==
    CASE s = "SubmitType::Auto" -> "auto"
      [] s = "SubmitType::Book" -> "book"
      [] s = "SubmitType::Donate" -> "donate"
      [] s = "SubmitType::Pay" -> "pay"
CurrencyToken(c) == IF c = "Currency::USD" THEN "usd" ELSE "eur"

-----------------------------------------------------------------------------
(* The structs, with every optional field unset. *)

NewCreateCheckoutSession ==
    [ cancel_url |-> "https://shop/cancel",
      payment_method_types |-> <<>>,
      success_url |-> "https://shop/ok",
      client_reference_id |-> None,
      customer |-> None,
      customer_email |-> None,
      billing_address_collection |-> None,
      line_items |-> None,
      locale |-> None,
      mode |-> None,
      payment_intent_data |-> None,
      submit_type |-> None ]

NewCheckoutSessionLineItem(amount, currency, quantity) ==
    [ amount |-> amount,
      currency |-> currency,
      name |-> "Widget",
      quantity |-> quantity,
      description |-> None,
      images |-> None ]

NewCheckoutPaymentIntentData ==
    [ application_fee_amount |-> None,
      description |-> None,
      metadata |-> None,
      on_behalf_of |-> None,
      receipt_email |-> None,
      statement_descriptor |-> None,
      statement_descriptor_suffix |-> None,
      transfer_data |-> None,
      transfer_group |-> None ]

NewCheckoutTransferData(destination) ==
    [ destination |-> destination, amount |-> None ]

-----------------------------------------------------------------------------
(* What #[derive(Serialize)] hands to the serializer: a tree of strings,    *)
(* integers, structs (fields in declaration order), sequences and maps.     *)

Str(s) == [t |-> "str", s |-> s]
Num(n) == [t |-> "num", n |-> n]
Struct(fs) == [t |-> "struct", fs |-> fs]
SeqOf(es) == [t |-> "seq", es |-> es]

\* A field without attribute is always serialised.
Field(k, node) == << [k |-> k, v |-> node] >>

\* OptField without the skip attribute: None is sent as an empty value.
OptFieldNull(k, o) ==
    IF IsNone(o) THEN << [k |-> k, v |-> Str("")] >> ELSE << [k |-> k, v |-> o[1]] >>

\* OptField skipping empty text and zero as well as None.
OptFieldSkipEmpty(k, o) ==
    IF IsNone(o) THEN <<>>
    ELSE LET node == o[1]
         IN  IF (node.t = "str" /\ node.s = "") \/ (node.t = "num" /\ node.n = 0)
             THEN <<>>
             ELSE << [k |-> k, v |-> node] >>

\* #[serde(skip_serializing_if = "Option::is_none")] on a field whose value,
\* when there is one, serialises to the node o[1].
OptField(k, o) ==
    IF IsNone(o) THEN <<>> ELSE << [k |-> k, v |-> o[1]] >>

SerStrings(v) == SeqOf([i \in 1..Len(v) |-> Str(v[i])])

\* HashMap<String, String>: the entries in the iteration order of the map.
SerMetadata(m, order) ==
    Struct([i \in 1..Len(order) |-> [k |-> order[i], v |-> Str(m[order[i]])]])

SerCheckoutTransferData(t) ==
    Struct(Field("destination", Str(t.destination))
        \o OptField("amount",
            [i \in DOMAIN t.amount |-> Num(t.amount[i])]))

\* SerCheckoutPaymentIntentData with transfer_data inlined (#[serde(flatten)]).
SerCheckoutPaymentIntentDataFlat(d, order) ==
    Struct(OptField("application_fee_amount",
            [i \in DOMAIN d.application_fee_amount |-> Num(d.application_fee_amount[i])])
        \o OptField("description",
            [i \in DOMAIN d.description |-> Str(d.description[i])])
        \o OptField("metadata",
            [i \in DOMAIN d.metadata |-> SerMetadata(d.metadata[i], order)])
        \o OptField("on_behalf_of",
            [i \in DOMAIN d.on_behalf_of |-> Str(d.on_behalf_of[i])])
        \o OptField("receipt_email",
            [i \in DOMAIN d.receipt_email |-> Str(d.receipt_email[i])])
        \o OptField("statement_descriptor",
            [i \in DOMAIN d.statement_descriptor |-> Str(d.statement_descriptor[i])])
        \o OptField("statement_descriptor_suffix",
            [i \in DOMAIN d.statement_descriptor_suffix |-> Str(d.statement_descriptor_suffix[i])])
        \o (IF IsNone(d.transfer_data) THEN <<>>
            ELSE SerCheckoutTransferData(d.transfer_data[1]).fs)
        \o OptField("transfer_group",
            [i \in DOMAIN d.transfer_group |-> Str(d.transfer_group[i])]))

SerCheckoutPaymentIntentData(d, order) ==
    Struct(OptField("application_fee_amount",
            [i \in DOMAIN d.application_fee_amount |-> Num(d.application_fee_amount[i])])
        \o OptField("description",
            [i \in DOMAIN d.description |-> Str(d.description[i])])
        \o OptField("metadata",
            [i \in DOMAIN d.metadata |-> SerMetadata(d.metadata[i], order)])
        \o OptField("on_behalf_of",
            [i \in DOMAIN d.on_behalf_of |-> Str(d.on_behalf_of[i])])
        \o OptField("receipt_email",
            [i \in DOMAIN d.receipt_email |-> Str(d.receipt_email[i])])
        \o OptField("statement_descriptor",
            [i \in DOMAIN d.statement_descriptor |-> Str(d.statement_descriptor[i])])
        \o OptField("statement_descriptor_suffix",
            [i \in DOMAIN d.statement_descriptor_suffix |-> Str(d.statement_descriptor_suffix[i])])
        \o OptField("transfer_data",
            [i \in DOMAIN d.transfer_data |-> SerCheckoutTransferData(d.transfer_data[i])])
        \o OptField("transfer_group",
            [i \in DOMAIN d.transfer_group |-> Str(d.transfer_group[i])]))

SerCheckoutSessionLineItem(it) ==
    Struct(Field("amount", Num(it.amount))
        \o Field("currency", Str(CurrencyToken(it.currency)))
        \o Field("name", Str(it.name))
        \o Field("quantity", Num(it.quantity))
        \o OptField("description",
            [i \in DOMAIN it.description |-> Str(it.description[i])])
        \o OptField("images",
            [i \in DOMAIN it.images |-> SerStrings(it.images[i])]))

\* SerLineItems emitting the items last to first.
SerLineItemsReversed(v) ==
    SeqOf([i \in 1..Len(v) |-> SerCheckoutSessionLineItem(v[Len(v) + 1 - i])])

SerLineItems(v) == SeqOf([i \in 1..Len(v) |-> SerCheckoutSessionLineItem(v[i])])

SerCreateCheckoutSession(p, order) ==
    Struct(Field("cancel_url", Str(p.cancel_url))
        \o Field("payment_method_types", SerStrings(p.payment_method_types))
        \o Field("success_url", Str(p.success_url))
        \o OptField("client_reference_id",
            [i \in DOMAIN p.client_reference_id |-> Str(p.client_reference_id[i])])
        \o OptField("customer",
            [i \in DOMAIN p.customer |-> Str(p.customer[i])])
        \o OptField("customer_email",
            [i \in DOMAIN p.customer_email |-> Str(p.customer_email[i])])
        \o OptField("billing_address_collection",
            [i \in DOMAIN p.billing_address_collection |-> Str(p.billing_address_collection[i])])
        \o OptField("line_items",
            [i \in DOMAIN p.line_items |-> SerLineItems(p.line_items[i])])
        \o OptField("locale",
            [i \in DOMAIN p.locale |-> Str(LocaleToken(p.locale[i]))])
        \o OptField("mode",
            [i \in DOMAIN p.mode |-> Str(ModeToken(p.mode[i]))])
        \o OptField("payment_intent_data",
            [i \in DOMAIN p.payment_intent_data |-> SerCheckoutPaymentIntentData(p.payment_intent_data[i], order)])
        \o OptField("submit_type",
            [i \in DOMAIN p.submit_type |-> Str(SubmitTypeToken(p.submit_type[i]))]))

-----------------------------------------------------------------------------
(* The form encoding of Client::post_form: the tree flattened into pairs,   *)
(* nested keys in brackets, sequence elements under indices from 0.         *)

RECURSIVE Render(_)
Render(path) ==
    IF Len(path) = 1 THEN path[1]
    ELSE Render(SubSeq(path, 1, Len(path) - 1)) \o "[" \o path[Len(path)] \o "]"

RECURSIVE Flatten(_, _), FlattenFields(_, _), FlattenElems(_, _, _)
Flatten(path, n) ==
    CASE n.t = "str" -> << [path |-> path, key |-> Render(path), value |-> n.s] >>
      [] n.t = "num" -> << [path |-> path, key |-> Render(path), value |-> ToString(n.n)] >>
      [] n.t = "struct" -> FlattenFields(path, n.fs)
      [] n.t = "seq" -> FlattenElems(path, n.es, 1)

FlattenFields(path, fs) ==
    IF fs = <<>> THEN <<>>
    ELSE Flatten(Append(path, Head(fs).k), Head(fs).v) \o FlattenFields(path, Tail(fs))

FlattenElems(path, es, i) ==
    IF i > Len(es) THEN <<>>
    ELSE Flatten(Append(path, ToString(i - 1)), es[i]) \o FlattenElems(path, es, i + 1)

\* The pairs of the form body for a parameter value.
Encode(p, order) == Flatten(<<>>, SerCreateCheckoutSession(p, order))

-----------------------------------------------------------------------------
(* The transport (Client::post_form -> Response<CheckoutSession>).          *)

NoOutcome == [kind |-> "none", v |-> ""]
Ok(r) == [kind |-> "ok", v |-> r]
Err(e) == [kind |-> "err", v |-> e]
OutcomeSet == {Ok("cs_test_1"), Err("invalid_request_error")}

\* The iteration orders a HashMap with the keys of m can have.
Orders(m) ==
    {o \in [1..Cardinality(DOMAIN m) -> DOMAIN m] :
        \A i, j \in DOMAIN o : i # j => o[i] # o[j]}

\* The iteration orders of the metadata map of p (one empty order when there is none).
MetadataOrders(p) ==
    IF IsSome(p.payment_intent_data) /\ IsSome(p.payment_intent_data[1].metadata)
    THEN Orders(p.payment_intent_data[1].metadata[1])
    ELSE {<<>>}

-----------------------------------------------------------------------------
Init ==
    /\ pc = "build"
    /\ params = NewCreateCheckoutSession
    /\ steps = 0
    /\ reqPath = ""
    /\ sent = <<>>
    /\ prevSent = <<>>
    /\ calls = 0
    /\ creates = 0
    /\ outcome = NoOutcome
    /\ ret = NoOutcome

\* The caller assigns one more field of the value it is building.
Assign(p) ==
    /\ pc = "build"
    /\ steps < MaxSteps
    /\ params' = p
    /\ steps' = steps + 1
    /\ UNCHANGED <<pc, reqPath, sent, prevSent, calls, creates, outcome, ret>>

PushPaymentMethodType ==
    \E t \in PaymentMethodTypeSet :
        Assign([params EXCEPT !.payment_method_types = Append(@, t)])

SetClientReferenceId ==
    \E v \in ClientReferenceIdSet :
        /\ IsNone(params.client_reference_id)
        /\ Assign([params EXCEPT !.client_reference_id = Some(v)])

SetCustomer ==
    \E v \in CustomerIdSet :
        /\ IsNone(params.customer)
        /\ Assign([params EXCEPT !.customer = Some(v)])

SetCustomerEmail ==
    \E v \in EmailSet :
        /\ IsNone(params.customer_email)
        /\ Assign([params EXCEPT !.customer_email = Some(v)])

SetBillingAddressCollection ==
    \E v \in BillingAddressCollectionSet :
        /\ IsNone(params.billing_address_collection)
        /\ Assign([params EXCEPT !.billing_address_collection = Some(v)])

PushLineItem ==
    \E a \in AmountSet, c \in Currency, q \in QuantitySet :
        LET it == NewCheckoutSessionLineItem(a, c, q)
        IN  Assign([params EXCEPT !.line_items =
                        IF IsNone(@) THEN Some(<<it>>) ELSE Some(Append(@[1], it))])

\* The optional fields of the line item pushed last.
SetLineItemDescription ==
    \E v \in DescriptionSet :
        /\ IsSome(params.line_items)
        /\ LET items == params.line_items[1]
               n == Len(items)
           IN  /\ IsNone(items[n].description)
               /\ Assign([params EXCEPT !.line_items =
                              Some([items EXCEPT ![n].description = Some(v)])])

PushLineItemImage ==
    \E u \in ImageSet :
        /\ IsSome(params.line_items)
        /\ LET items == params.line_items[1]
               n == Len(items)
           IN  Assign([params EXCEPT !.line_items =
                   Some([items EXCEPT ![n].images =
                       IF IsNone(@) THEN Some(<<u>>) ELSE Some(Append(@[1], u))])])

SetLocale ==
    \E v \in CheckoutSessionLocale :
        /\ IsNone(params.locale)
        /\ Assign([params EXCEPT !.locale = Some(v)])

SetMode ==
    \E v \in CheckoutSessionMode :
        /\ IsNone(params.mode)
        /\ Assign([params EXCEPT !.mode = Some(v)])

SetSubmitType ==
    \E v \in CheckoutSessionSubmitType :
        /\ IsNone(params.submit_type)
        /\ Assign([params EXCEPT !.submit_type = Some(v)])

SetPaymentIntentData ==
    /\ IsNone(params.payment_intent_data)
    /\ Assign([params EXCEPT !.payment_intent_data = Some(NewCheckoutPaymentIntentData)])

\* One field of the payment_intent_data the value already carries.
AssignIntentData(d) ==
    Assign([params EXCEPT !.payment_intent_data = Some(d)])

SetApplicationFeeAmount ==
    \E v \in FeeSet :
        /\ IsSome(params.payment_intent_data)
        /\ LET d == params.payment_intent_data[1]
           IN  /\ IsNone(d.application_fee_amount)
               /\ AssignIntentData([d EXCEPT !.application_fee_amount = Some(v)])

SetIntentDescription ==
    \E v \in DescriptionSet :
        /\ IsSome(params.payment_intent_data)
        /\ LET d == params.payment_intent_data[1]
           IN  /\ IsNone(d.description)
               /\ AssignIntentData([d EXCEPT !.description = Some(v)])

InsertMetadata ==
    \E k \in MetadataKeySet, v \in MetadataValueSet :
        /\ IsSome(params.payment_intent_data)
        /\ LET d == params.payment_intent_data[1]
               old == IF IsNone(d.metadata) THEN <<>> ELSE d.metadata[1]
               new == [x \in (DOMAIN old) \cup {k} |-> IF x = k THEN v ELSE old[x]]
           IN  /\ k \notin DOMAIN old
               /\ AssignIntentData([d EXCEPT !.metadata = Some(new)])

SetOnBehalfOf ==
    \E v \in AccountSet :
        /\ IsSome(params.payment_intent_data)
        /\ LET d == params.payment_intent_data[1]
           IN  /\ IsNone(d.on_behalf_of)
               /\ AssignIntentData([d EXCEPT !.on_behalf_of = Some(v)])

SetReceiptEmail ==
    \E v \in EmailSet :
        /\ IsSome(params.payment_intent_data)
        /\ LET d == params.payment_intent_data[1]
           IN  /\ IsNone(d.receipt_email)
               /\ AssignIntentData([d EXCEPT !.receipt_email = Some(v)])

SetStatementDescriptor ==
    \E v \in StatementSet :
        /\ IsSome(params.payment_intent_data)
        /\ LET d == params.payment_intent_data[1]
           IN  /\ IsNone(d.statement_descriptor)
               /\ AssignIntentData([d EXCEPT !.statement_descriptor = Some(v)])

SetStatementDescriptorSuffix ==
    \E v \in StatementSet :
        /\ IsSome(params.payment_intent_data)
        /\ LET d == params.payment_intent_data[1]
           IN  /\ IsNone(d.statement_descriptor_suffix)
               /\ AssignIntentData([d EXCEPT !.statement_descriptor_suffix = Some(v)])

SetTransferData ==
    \E v \in AccountSet :
        /\ IsSome(params.payment_intent_data)
        /\ LET d == params.payment_intent_data[1]
           IN  /\ IsNone(d.transfer_data)
               /\ AssignIntentData([d EXCEPT !.transfer_data = Some(NewCheckoutTransferData(v))])

SetTransferAmount ==
    \E v \in FeeSet :
        /\ IsSome(params.payment_intent_data)
        /\ LET d == params.payment_intent_data[1]
           IN  /\ IsSome(d.transfer_data)
               /\ IsNone(d.transfer_data[1].amount)
               /\ AssignIntentData([d EXCEPT !.transfer_data =
                                        Some([@[1] EXCEPT !.amount = Some(v)])])

SetTransferGroup ==
    \E v \in GroupSet :
        /\ IsSome(params.payment_intent_data)
        /\ LET d == params.payment_intent_data[1]
           IN  /\ IsNone(d.transfer_group)
               /\ AssignIntentData([d EXCEPT !.transfer_group = Some(v)])

\* Create submitting a second time when the transport reports an error.
CreateRetry(order, out) ==
    /\ creates < MaxCreates
    /\ reqPath' = "/checkout/sessions"
    /\ sent' = Encode(params, order)
    /\ prevSent' = sent
    /\ calls' = IF out.kind = "err" THEN calls + 2 ELSE calls + 1
    /\ outcome' = out
    /\ ret' = out
    /\ creates' = creates + 1
    /\ pc' = "done"
    /\ UNCHANGED <<params, steps>>

\* Create leaving submit_type out of a subscription-mode request.
CreateChecked(order, out) ==
    /\ creates < MaxCreates
    /\ reqPath' = "/checkout/sessions"
    /\ sent' = Encode(IF params.mode = Some("Mode::Subscription")
                      THEN [params EXCEPT !.submit_type = None]
                      ELSE params, order)
    /\ prevSent' = sent
    /\ calls' = calls + 1
    /\ outcome' = out
    /\ ret' = out
    /\ creates' = creates + 1
    /\ pc' = "done"
    /\ UNCHANGED <<params, steps>>

\* CheckoutSession::create(client, params): one form submission to the fixed
\* path, whose outcome is returned as it is.  `order` is the iteration order of
\* the metadata map of this value, `out` what the transport answers.  A second
\* call is made with an equal value (create takes its parameter by value).
Create(order, out) ==
    /\ creates < MaxCreates
    /\ reqPath' = "/checkout/sessions"
    /\ sent' = Encode(params, order)
    /\ prevSent' = sent
    /\ calls' = calls + 1
    /\ outcome' = out
    /\ ret' = out
    /\ creates' = creates + 1
    /\ pc' = "done"
    /\ UNCHANGED <<params, steps>>

CreateCall ==
    \E order \in MetadataOrders(params), out \in OutcomeSet : Create(order, out)

Next ==
    \/ PushPaymentMethodType
    \/ SetClientReferenceId
    \/ SetCustomer
    \/ SetCustomerEmail
    \/ SetBillingAddressCollection
    \/ PushLineItem
    \/ SetLineItemDescription
    \/ PushLineItemImage
    \/ SetLocale
    \/ SetMode
    \/ SetSubmitType
    \/ SetPaymentIntentData
    \/ SetApplicationFeeAmount
    \/ SetIntentDescription
    \/ InsertMetadata
    \/ SetOnBehalfOf
    \/ SetReceiptEmail
    \/ SetStatementDescriptor
    \/ SetStatementDescriptorSuffix
    \/ SetTransferData
    \/ SetTransferAmount
    \/ SetTransferGroup
    \/ CreateCall

Spec == Init /\ [][Next]_vars

-----------------------------------------------------------------------------
(* Reading the request the transport received. *)

\* The positions of the pairs whose path is exactly `path`.
At(path) == {i \in 1..Len(sent) : sent[i].path = path}

\* The positions of the pairs whose path starts with `prefix`.
Under(prefix) ==
    {i \in 1..Len(sent) :
        /\ Len(sent[i].path) >= Len(prefix)
        /\ SubSeq(sent[i].path, 1, Len(prefix)) = prefix}

\* Nothing was sent for the field at `path`: no pair at or below it, no such key.
Absent(path) ==
    /\ Under(path) = {}
    /\ \A i \in 1..Len(sent) : sent[i].key # Render(path)

\* Exactly one pair was sent for the field at `path`, and it carries v.
SentOnce(path, v) ==
    /\ Cardinality(At(path)) = 1
    /\ Cardinality(Under(path)) = 1
    /\ \A i \in At(path) : sent[i].value = v

RootOptionalFields ==
    {"client_reference_id", "customer", "customer_email", "billing_address_collection",
     "line_items", "locale", "mode", "payment_intent_data", "submit_type"}
LineItemOptionalFields == {"description", "images"}
IntentTextFields ==
    {"description", "on_behalf_of", "receipt_email", "statement_descriptor",
     "statement_descriptor_suffix", "transfer_group"}
IntentOptionalFields ==
    IntentTextFields \cup {"application_fee_amount", "metadata", "transfer_data"}

LineItems == IF IsSome(params.line_items) THEN params.line_items[1] ELSE <<>>
HasIntentData == IsSome(params.payment_intent_data)
IntentData == params.payment_intent_data[1]
HasTransferData == HasIntentData /\ IsSome(IntentData.transfer_data)
TransferData == IntentData.transfer_data[1]

-----------------------------------------------------------------------------
\* C1: once create has sent the request, an optional field that is None has
\* no pair in it, at the root, in every line item, in payment_intent_data and
\* in payment_intent_data.transfer_data: no key equal to or below the field's
\* path, hence no empty or null placeholder either.
C1_UnsetFieldHasNoKey ==
    pc = "done" =>
        /\ \A f \in RootOptionalFields : IsNone(params[f]) => Absent(<<f>>)
        /\ \A n \in 1..Len(LineItems) : \A f \in LineItemOptionalFields :
               IsNone(LineItems[n][f]) => Absent(<<"line_items", ToString(n - 1), f>>)
        /\ HasIntentData =>
               \A f \in IntentOptionalFields :
                   IsNone(IntentData[f]) => Absent(<<"payment_intent_data", f>>)
        /\ HasTransferData =>
               (IsNone(TransferData.amount) =>
                   Absent(<<"payment_intent_data", "transfer_data", "amount">>))

\* A request went out with unset optional fields at each of the four depths.
C1_Witness ==
    /\ pc = "done"
    /\ Len(sent) > 0
    /\ IsNone(params.customer)
    /\ Len(LineItems) >= 1 /\ IsNone(LineItems[1].description)
    /\ HasTransferData /\ IsNone(TransferData.amount)
    /\ IsNone(IntentData.metadata)

\* C2: once create has sent the request, every scalar optional field that is
\* Some(v) has exactly one pair, carrying v in its wire form (text as it is, a
\* number in decimal, an enumeration as its token), also when v is "" or 0.
C2_SetScalarHasOnePair ==
    pc = "done" =>
        /\ \A f \in {"client_reference_id", "customer", "customer_email",
                     "billing_address_collection"} :
               IsSome(params[f]) => SentOnce(<<f>>, params[f][1])
        /\ IsSome(params.locale) => SentOnce(<<"locale">>, LocaleToken(params.locale[1]))
        /\ IsSome(params.mode) => SentOnce(<<"mode">>, ModeToken(params.mode[1]))
        /\ IsSome(params.submit_type) =>
               SentOnce(<<"submit_type">>, SubmitTypeToken(params.submit_type[1]))
        /\ \A n \in 1..Len(LineItems) :
               IsSome(LineItems[n].description) =>
                   SentOnce(<<"line_items", ToString(n - 1), "description">>,
                            LineItems[n].description[1])
        /\ HasIntentData =>
               /\ \A f \in IntentTextFields :
                      IsSome(IntentData[f]) =>
                          SentOnce(<<"payment_intent_data", f>>, IntentData[f][1])
               /\ IsSome(IntentData.application_fee_amount) =>
                      SentOnce(<<"payment_intent_data", "application_fee_amount">>,
                               ToString(IntentData.application_fee_amount[1]))
        /\ HasTransferData =>
               (IsSome(TransferData.amount) =>
                   SentOnce(<<"payment_intent_data", "transfer_data", "amount">>,
                            ToString(TransferData.amount[1])))

\* A request went out with an empty reference and a zero application fee.
C2_Witness ==
    /\ pc = "done"
    /\ params.client_reference_id = Some("")
    /\ HasIntentData
    /\ IntentData.application_fee_amount = Some(0)

\* C3: once create has sent a request with N >= 1 line items, the indices under
\* line_items are exactly 0..N-1, and group i holds the fields of the i-th item
\* of the input sequence.
C3_LineItemGroupsFollowInput ==
    (pc = "done" /\ Len(LineItems) >= 1) =>
        /\ {sent[i].path[2] : i \in Under(<<"line_items">>)} =
               {ToString(n - 1) : n \in 1..Len(LineItems)}
        /\ \A n \in 1..Len(LineItems) :
               LET g == <<"line_items", ToString(n - 1)>>
                   it == LineItems[n]
               IN  /\ SentOnce(Append(g, "amount"), ToString(it.amount))
                   /\ SentOnce(Append(g, "currency"), CurrencyToken(it.currency))
                   /\ SentOnce(Append(g, "name"), it.name)
                   /\ SentOnce(Append(g, "quantity"), ToString(it.quantity))
                   /\ Cardinality(Under(g)) =
                          4 + (IF IsSome(it.description) THEN 1 ELSE 0)
                            + (IF IsSome(it.images) THEN Len(it.images[1]) ELSE 0)

\* A request went out with two different line items.
C3_Witness ==
    /\ pc = "done"
    /\ Len(LineItems) = 2
    /\ LineItems[1] # LineItems[2]

\* The keys a request may carry for a present payment_intent_data: each field
\* of the nested struct under the bracketed path of its parents.
IntentKeys ==
    {"payment_intent_data[" \o f \o "]" :
        f \in IntentTextFields \cup {"application_fee_amount"}}
    \cup {"payment_intent_data[metadata][" \o k \o "]" : k \in MetadataKeySet}
    \cup {"payment_intent_data[transfer_data][destination]",
          "payment_intent_data[transfer_data][amount]"}

\* The field names of the nested structs.
NestedFieldNames ==
    IntentOptionalFields \cup {"destination", "amount"}
    \cup {"currency", "name", "quantity", "images"}

\* C4: once create has sent a request with payment_intent_data, every pair that
\* belongs to the nested value has a key made of the parents' path in brackets
\* around the field's own name; the destination of a present transfer_data is
\* under payment_intent_data[transfer_data][destination]; no field of a nested
\* struct is a top-level key.
C4_NestedKeysArePrefixed ==
    (pc = "done" /\ HasIntentData) =>
        /\ \A i \in Under(<<"payment_intent_data">>) : sent[i].key \in IntentKeys
        /\ \A i \in 1..Len(sent) : sent[i].key \notin NestedFieldNames
        /\ \A f \in IntentTextFields :
               IsSome(IntentData[f]) =>
                   \E i \in 1..Len(sent) :
                       /\ sent[i].key = "payment_intent_data[" \o f \o "]"
                       /\ sent[i].value = IntentData[f][1]
        /\ HasTransferData =>
               /\ \E i \in 1..Len(sent) :
                      /\ sent[i].key = "payment_intent_data[transfer_data][destination]"
                      /\ sent[i].value = TransferData.destination
               /\ IsSome(TransferData.amount) =>
                      \E i \in 1..Len(sent) :
                          /\ sent[i].key = "payment_intent_data[transfer_data][amount]"
                          /\ sent[i].value = ToString(TransferData.amount[1])

\* A request went out with transfer_data two levels down, its amount set.
C4_Witness ==
    /\ pc = "done"
    /\ HasTransferData
    /\ IsSome(TransferData.amount)

\* C5: a request that reached the transport has at least one payment method
\* type.
C5_EmptyTypesNeverSent ==
    calls > 0 => Len(params.payment_method_types) >= 1

\* C6: two create calls with equal parameter values hand the transport the
\* same pairs in the same order.
C6_SameValueSamePairs ==
    creates >= 2 => sent = prevSent

\* C7: a request that reached the transport carries only legal values in its
\* closed-set fields.
C7_ClosedSetValuesOnly ==
    pc = "done" =>
        \A i \in 1..Len(sent) :
            /\ sent[i].key = "billing_address_collection" =>
                   sent[i].value \in {"auto", "required"}
            /\ sent[i].key = "locale" =>
                   sent[i].value \in {LocaleToken(l) : l \in CheckoutSessionLocale}
            /\ sent[i].key = "mode" =>
                   sent[i].value \in {ModeToken(m) : m \in CheckoutSessionMode}
            /\ sent[i].key = "submit_type" =>
                   sent[i].value \in {SubmitTypeToken(t) : t \in CheckoutSessionSubmitType}
            /\ (Len(sent[i].path) = 3 /\ sent[i].path[1] = "line_items"
                    /\ sent[i].path[3] = "currency") =>
                   sent[i].value \in {CurrencyToken(c) : c \in Currency}

\* C8: every create call makes exactly one form submission, to
\* /checkout/sessions, and returns what the transport produced for it: the
\* resource or the error, nothing else.
C8_CreateIsPassThrough ==
    /\ calls = creates
    /\ creates > 0 =>
           /\ reqPath = "/checkout/sessions"
           /\ ret = outcome
           /\ ret \in OutcomeSet

\* A create call returned the error of the transport.
C8_Witness ==
    /\ pc = "done"
    /\ outcome.kind = "err"
    /\ ret.kind = "err"

\* C9: every line item of a request that reached the transport has a quantity
\* of at least 1 and an amount of at least 0.
C9_LineItemsPositive ==
    pc = "done" =>
        \A n \in 1..Len(LineItems) :
            LineItems[n].quantity >= 1 /\ LineItems[n].amount >= 0

\* The number of pairs a payment_intent_data value stands for.
IntentPairCount(d) ==
    Cardinality({f \in IntentTextFields \cup {"application_fee_amount"} : IsSome(d[f])})
    + (IF IsSome(d.metadata) THEN Cardinality(DOMAIN d.metadata[1]) ELSE 0)
    + (IF IsSome(d.transfer_data)
       THEN 1 + (IF IsSome(d.transfer_data[1].amount) THEN 1 ELSE 0)
       ELSE 0)

\* C10: whatever mode, submit_type and payment_intent_data are, set or not, the
\* create call submits the request and returns the transport's answer, and the
\* request carries mode, submit_type and the fields of payment_intent_data
\* exactly as the caller set them.
C10_NoCrossFieldCheck ==
    pc = "done" =>
        /\ calls >= 1
        /\ ret = outcome
        /\ IF IsSome(params.mode)
           THEN \E i \in At(<<"mode">>) : sent[i].value = ModeToken(params.mode[1])
           ELSE At(<<"mode">>) = {}
        /\ IF IsSome(params.submit_type)
           THEN \E i \in At(<<"submit_type">>) :
                    sent[i].value = SubmitTypeToken(params.submit_type[1])
           ELSE At(<<"submit_type">>) = {}
        /\ Cardinality(Under(<<"payment_intent_data">>)) =
               (IF HasIntentData THEN IntentPairCount(IntentData) ELSE 0)

\* A subscription-mode request went out with submit_type and
\* payment_intent_data set.
C10_Witness ==
    /\ pc = "done"
    /\ params.mode = Some("Mode::Subscription")
    /\ IsSome(params.submit_type)
    /\ HasIntentData

====
